---- MODULE Spec2Model ----
(***************************************************************************)
(* Transcription endpoints of notes-backend/routers/transcription.py.      *)
(*                                                                         *)
(* The state is the transcriptions table (db), the next id of the table   *)
(* (nextId), the requests being handled (inflight) and the HTTP response   *)
(* sent by the last step (resp).  A handler is one action for each stretch *)
(* of it that runs with nothing else in between: the get and delete        *)
(* endpoints make one store call and are one action; the upload and chunk  *)
(* endpoints give way at `await audio.read()` and are two; the list        *)
(* endpoint makes two store calls and is two; a workflow endpoint makes    *)
(* three calls and is three.  The speech transcriber, the AI medical       *)
(* service and the caller's role are inputs of the actions.                *)
(*                                                                         *)
(* Python values are modelled as follows.  An Optional value is None       *)
(* (<<>>) or Some(v) (<<v>>).  A str is a TLA+ string, a list is a         *)
(* sequence and a dict a sequence of its entries; a content type or a      *)
(* file name, which the code splits, strips and matches by suffix, is a    *)
(* sequence of tokens.                                                     *)
(***************************************************************************)
EXTENDS Integers, Sequences, FiniteSets, TLC

VARIABLES db, nextId, resp, inflight

vars == <<db, nextId, resp, inflight>>

\* ------------------------------------------------------------------ bounds
\* Number of records the store ever creates.
MaxRecords == 1

\* ------------------------------------------------------- Python Optionals
None == <<>>

Some(v) == <<v>>

\* `not x` for an Optional[str]: None and "" are falsy.
FalsyStr(x) == x = None \/ x[1] = ""

\* `not x` for an Optional[list] or Optional[dict]: None, [] and {} are falsy.
FalsyList(x) == x = None \/ x[1] = <<>>

\* ------------------------------------------------------------------ roles
DOCTOR == "doctor"

ADMIN == "admin"

Roles == {DOCTOR, ADMIN}

\* ------------------------------------------------- workflow status labels
RAW == "Raw"

NOTE_GENERATED == "NoteGenerated"

CODES_SUGGESTED == "CodesSuggested"

FORM_GENERATED == "FormGenerated"

\* The order Raw < NoteGenerated < CodesSuggested < FormGenerated.
StatusRank(s) ==
    CASE s = RAW -> 0
      [] s = NOTE_GENERATED -> 1
      [] s = CODES_SUGGESTED -> 2
      [] s = FORM_GENERATED -> 3

\* The derived field workflow_status: the furthest step whose output the
\* record holds.
workflow_status(t) ==
    IF ~FalsyList(t.cms1500_form) THEN FORM_GENERATED
    ELSE IF ~FalsyList(t.icd10_codes) /\ ~FalsyList(t.cpt_codes) THEN CODES_SUGGESTED
    ELSE IF ~FalsyStr(t.medical_note) THEN NOTE_GENERATED
    ELSE RAW

\* ------------------------------------------- TranscriptionService (store)
\* The table is the sequence of its rows in creation order.
Ids(d) == {d[i].id : i \in 1..Len(d)}

IndexOf(d, id) == CHOOSE i \in 1..Len(d) : d[i].id = id

\* The row of the table with this id.
Row(d, id) == d[IndexOf(d, id)]

\* create: the row as created from a TranscriptionCreate; no workflow output.
TS_create_transcription(d, id, data) ==
    Append(d, [id |-> id,
               filename |-> data.filename,
               file_size_mb |-> data.file_size_mb,
               content_type |-> data.content_type,
               text |-> data.text,
               medical_note |-> None,
               icd10_codes |-> None,
               cpt_codes |-> None,
               cms1500_form |-> None])

\* get: the row with this id, or None.
TS_get_transcription(d, id) ==
    IF id \in Ids(d) THEN Some(d[IndexOf(d, id)]) ELSE None

Min(a, b) == IF a < b THEN a ELSE b

\* list: offset/limit over the creation order.
TS_get_transcriptions(d, skip, limit) ==
    SubSeq(d, skip + 1, Min(Len(d), skip + limit))

TS_count_transcriptions(d) == Len(d)

\* delete: hard delete; the table without the row (unchanged if absent).
TS_delete_transcription(d, id) ==
    SelectSeq(d, LAMBDA t : t.id # id)

\* update_*: partial updates of one row; the table is unchanged if the id is
\* absent (the caller then gets None from the lookup of the updated row).
TS_update_medical_note(d, id, medical_note) ==
    [i \in 1..Len(d) |->
        IF d[i].id = id THEN [d[i] EXCEPT !.medical_note = medical_note] ELSE d[i]]

TS_update_icd10_codes(d, id, icd10_codes) ==
    [i \in 1..Len(d) |->
        IF d[i].id = id THEN [d[i] EXCEPT !.icd10_codes = icd10_codes] ELSE d[i]]

TS_update_cpt_codes(d, id, cpt_codes) ==
    [i \in 1..Len(d) |->
        IF d[i].id = id THEN [d[i] EXCEPT !.cpt_codes = cpt_codes] ELSE d[i]]

TS_update_cms1500_form(d, id, cms1500_form) ==
    [i \in 1..Len(d) |->
        IF d[i].id = id THEN [d[i] EXCEPT !.cms1500_form = cms1500_form] ELSE d[i]]

TS_update_full_workflow(d, id, medical_note, icd10_codes, cpt_codes, cms1500_form) ==
    [i \in 1..Len(d) |->
        IF d[i].id = id
        THEN [d[i] EXCEPT !.medical_note = medical_note,
                          !.icd10_codes = icd10_codes,
                          !.cpt_codes = cpt_codes,
                          !.cms1500_form = cms1500_form]
        ELSE d[i]]

\* ------------------------------------------------------- role-based views
\* TranscriptionResponse.from_orm: every field of the row.
TranscriptionResponse(t) ==
    [id |-> t.id,
     filename |-> t.filename,
     file_size_mb |-> t.file_size_mb,
     content_type |-> t.content_type,
     text |-> t.text,
     medical_note |-> t.medical_note,
     icd10_codes |-> t.icd10_codes,
     cpt_codes |-> t.cpt_codes,
     cms1500_form |-> t.cms1500_form,
     workflow_status |-> workflow_status(t)]

\* TranscriptionResponseDoctor(...): the fields the handler passes.
TranscriptionResponseDoctor(t) ==
    [id |-> t.id,
     filename |-> t.filename,
     file_size_mb |-> t.file_size_mb,
     content_type |-> t.content_type,
     text |-> t.text,
     medical_note |-> t.medical_note,
     workflow_status |-> workflow_status(t)]

\* Mutant: every role gets the full record.
filter_transcription_unfiltered(t, role) == TranscriptionResponse(t)

filter_transcription_for_role(t, role) ==
    IF role = DOCTOR
    THEN TranscriptionResponseDoctor(t)
    ELSE TranscriptionResponse(t)

\* --------------------------------------------------------------- settings
MAX_FILE_SIZE_MB == 25

BytesPerMB == 1048576

OCTET_STREAM == <<"application/octet-stream">>

\* settings.ALLOWED_AUDIO_FORMATS: the MIME types of the extension table.
ALLOWED_AUDIO_FORMATS ==
    {<<"audio/mpeg">>, <<"audio/wav">>, <<"audio/m4a">>,
     <<"audio/ogg">>, <<"audio/flac">>, <<"audio/webm">>}

\* ------------------------------------------------ content-type resolution
Extensions == {".mp3", ".wav", ".m4a", ".ogg", ".flac", ".webm"}

\* Mutant: .m4a files are given the type audio/mp4.
ext_to_mime_mp4(ext) ==
    CASE ext = ".mp3" -> "audio/mpeg"
      [] ext = ".wav" -> "audio/wav"
      [] ext = ".m4a" -> "audio/mp4"
      [] ext = ".ogg" -> "audio/ogg"
      [] ext = ".flac" -> "audio/flac"
      [] ext = ".webm" -> "audio/webm"

ext_to_mime(ext) ==
    CASE ext = ".mp3" -> "audio/mpeg"
      [] ext = ".wav" -> "audio/wav"
      [] ext = ".m4a" -> "audio/m4a"
      [] ext = ".ogg" -> "audio/ogg"
      [] ext = ".flac" -> "audio/flac"
      [] ext = ".webm" -> "audio/webm"

\* str.lower() on one token of a file name.
LowerToken(tok) ==
    CASE tok = ".MP3" -> ".mp3"
      [] tok = ".WAV" -> ".wav"
      [] tok = ".M4A" -> ".m4a"
      [] tok = ".OGG" -> ".ogg"
      [] tok = ".FLAC" -> ".flac"
      [] tok = ".WEBM" -> ".webm"
      [] tok = ".TXT" -> ".txt"
      [] tok = "VISIT" -> "visit"
      [] OTHER -> tok

\* audio.filename.lower() if audio.filename else ""
filename_lower(filename) ==
    IF filename = None THEN <<>>
    ELSE [i \in 1..Len(filename[1]) |-> LowerToken(filename[1][i])]

endswith(name, ext) == Len(name) > 0 /\ name[Len(name)] = ext

\* Mutant: an upload without a declared type is resolved by extension too.
detect_content_type_or_empty(content_type, filename) ==
    IF content_type \in {None, Some(<<>>), Some(OCTET_STREAM)}
       /\ \E ext \in Extensions : endswith(filename_lower(filename), ext)
    THEN LET ext == CHOOSE e \in Extensions : endswith(filename_lower(filename), e)
         IN Some(<<ext_to_mime(ext)>>)
    ELSE content_type

\* Lines 114-132: an octet-stream upload takes the type of its extension.
detect_content_type(content_type, filename) ==
    IF content_type = Some(OCTET_STREAM)
       /\ \E ext \in Extensions : endswith(filename_lower(filename), ext)
    THEN LET ext == CHOOSE e \in Extensions : endswith(filename_lower(filename), e)
         IN Some(<<ext_to_mime(ext)>>)
    ELSE content_type

\* s.split(';')[0]: the tokens before the first ";".
RECURSIVE BeforeSemicolon(_)
BeforeSemicolon(s) ==
    IF s = <<>> \/ Head(s) = ";" THEN <<>>
    ELSE <<Head(s)>> \o BeforeSemicolon(Tail(s))

\* s.strip(): without leading and trailing blanks.
RECURSIVE LStrip(_)
LStrip(s) == IF s # <<>> /\ Head(s) = " " THEN LStrip(Tail(s)) ELSE s

RECURSIVE RStrip(_)
RStrip(s) ==
    IF s # <<>> /\ s[Len(s)] = " " THEN RStrip(SubSeq(s, 1, Len(s) - 1)) ELSE s

Strip(s) == RStrip(LStrip(s))

\* Line 135: content_type.split(';')[0].strip() if content_type else ""
base_content_type(content_type) ==
    IF content_type = None \/ content_type[1] = <<>> THEN <<>>
    ELSE Strip(BeforeSemicolon(content_type[1]))

\* Line 137: the condition under which the upload is refused (HTTP 400).
unsupported_format(content_type) ==
    /\ base_content_type(content_type) \notin ALLOWED_AUDIO_FORMATS
    /\ base_content_type(content_type) # OCTET_STREAM

\* Mutant: compares whole megabytes.
file_too_large_whole_mb(file_size) == file_size \div BytesPerMB > MAX_FILE_SIZE_MB

\* Line 149: file_size / (1024 * 1024) > settings.MAX_FILE_SIZE_MB
file_too_large(file_size) == file_size > MAX_FILE_SIZE_MB * BytesPerMB

\* round(file_size / (1024 * 1024), 2), in hundredths of a MB (the quotient
\* is exact in a double, and round() rounds its ties to even).
round_size_mb(file_size) ==
    LET whole == file_size \div BytesPerMB
        frac == (file_size % BytesPerMB) * 100
        low == frac \div BytesPerMB
        rest == frac % BytesPerMB
        up == rest * 2 > BytesPerMB \/ (rest * 2 = BytesPerMB /\ low % 2 = 1)
    IN whole * 100 + low + (IF up THEN 1 ELSE 0)

\* ----------------------------------------------------------------- inputs
\* Path parameter transcription_id: every id the store can hold, and one it
\* never holds.
TranscriptionIds == 1..(MaxRecords + 1)

\* Uploads: declared content type, file name and size in bytes.
ContentTypes == {None, Some(OCTET_STREAM), Some(<<"text/plain">>)}

FileNames == {Some(<<"VISIT", ".WAV">>)}

FileSizes == {MAX_FILE_SIZE_MB * BytesPerMB, MAX_FILE_SIZE_MB * BytesPerMB + 1}

\* HuggingFaceService.transcribe_audio: the result dict.
TranscriberResults ==
    {[status |-> "success", text |-> "Patient reports headache"],
     [status |-> "error", message |-> "upstream error"],
     [status |-> "loading"]}

\* AIMedicalService: a call raises, or returns a value (empty or not; a key
\* of the full workflow's result may also be None or missing).
Raised == [raised |-> TRUE]

Returned(v) == [raised |-> FALSE, value |-> v]

NoteValues == {Some(""), Some("note 1")}

Icd10Values == {Some(<<>>), Some(<<"R51">>)}

CptValues == {Some(<<>>), Some(<<"99213">>)}

FormValues == {Some(<<"cms1500">>)}

NoteOutcomes == {Raised} \cup {Returned(v) : v \in NoteValues}

Icd10Outcomes == {Raised} \cup {Returned(v) : v \in Icd10Values}

CptOutcomes == {Raised} \cup {Returned(v) : v \in CptValues}

FormOutcomes == {Raised} \cup {Returned(v) : v \in FormValues}

\* run_full_workflow: the result dict, complete, or with one value None or
\* empty, or with one key missing, or with a key beside the four the
\* handler reads.
FullKeys == {"medical_note", "icd10_codes", "cpt_codes", "cms1500_form_data"}

CompleteResult ==
    [medical_note |-> Some("note 1"), icd10_codes |-> Some(<<"R51">>),
     cpt_codes |-> Some(<<"99213">>), cms1500_form_data |-> Some(<<"cms1500">>)]

FullResults ==
    {CompleteResult,
     [CompleteResult EXCEPT !.medical_note = Some("")],
     [CompleteResult EXCEPT !.icd10_codes = Some(<<>>)],
     [CompleteResult EXCEPT !.cpt_codes = None],
     [CompleteResult EXCEPT !.cms1500_form_data = None],
     [k \in {"medical_note", "icd10_codes", "cpt_codes"} |-> CompleteResult[k]],
     [k \in {"icd10_codes", "cpt_codes", "cms1500_form_data"} |-> CompleteResult[k]],
     [k \in FullKeys \cup {"workflow_status"} |->
         IF k \in FullKeys THEN CompleteResult[k] ELSE Some("completed")]}

FullOutcomes == {Raised} \cup {Returned(v) : v \in FullResults}

\* -------------------------------------------------------------- responses
\* The HTTP response of the last request: the endpoint (op), its path id (0
\* if it has none), the caller's role, the status code and detail/message,
\* whether the AI service (ai) and the transcriber (stt) were called and how
\* the call ended, the size in bytes of the uploaded file (0 if none), and the
\* body: the returned items and the paging fields.  It also keeps what the
\* request came with (the upload's declared type and file name, the list's
\* skip and limit) and the content type handed to the transcriber (None if
\* it was not called).
NoUpload == [declared_type |-> None, filename |-> None]

Response(op, id, role, status, detail, ai, stt, items) ==
    [op |-> op, id |-> id, role |-> role, status |-> status, detail |-> detail,
     ai |-> ai, stt |-> stt, items |-> items,
     file_size |-> 0, total |-> 0, page |-> 0, page_size |-> 0,
     upload |-> NoUpload, content_type |-> None, skip |-> 0, limit |-> 0]

NoResponse == Response("none", 0, ADMIN, 0, "", "none", "none", <<>>)

NotFound(op, id, role) ==
    Response(op, id, role, 404, "Transcription not found", "none", "none", <<>>)

\* An exception no handler catches: 500 Internal Server Error.
ServerError(op, id, role, ai) ==
    Response(op, id, role, 500, "Internal Server Error", ai, "none", <<>>)

\* ----------------------------------------------------- workflow endpoints
\* The success body of a workflow step: the updated row, filtered by role.
WorkflowStepResponse(op, id, role, message, updated) ==
    Response(op, id, role, 200, message, "returned", "none",
             <<filter_transcription_for_role(updated, role)>>)

\* Mutant: an update that did not apply is reported as a success.
StepResult_lenient(op, id, role, message, failure, d) ==
    IF TS_get_transcription(d, id) = None
    THEN Response(op, id, role, 200, message, "returned", "none", <<>>)
    ELSE WorkflowStepResponse(op, id, role, message, TS_get_transcription(d, id)[1])

\* `if not updated: raise HTTPException(500, ...)`, else the success body.
StepResult(op, id, role, message, failure, d) ==
    IF TS_get_transcription(d, id) = None
    THEN Response(op, id, role, 500, failure, "returned", "none", <<>>)
    ELSE WorkflowStepResponse(op, id, role, message, TS_get_transcription(d, id)[1])

\* Mutant: only None counts as a missing note.
note_missing_none_only(t) == t.medical_note = None

\* Lines 318 and 353: `if not transcription.medical_note`.
note_missing(t) == FalsyStr(t.medical_note)

\* Mutant: refuses only when both lists are missing.
codes_missing_both(t) == FalsyList(t.icd10_codes) /\ FalsyList(t.cpt_codes)

\* Line 392: `if not transcription.icd10_codes or not transcription.cpt_codes`.
codes_missing(t) == FalsyList(t.icd10_codes) \/ FalsyList(t.cpt_codes)

BadRequest(op, id, role, detail) ==
    Response(op, id, role, 400, detail, "none", "none", <<>>)

\* The workflow endpoints are plain `def` handlers, which the framework runs
\* in worker threads: the requests of two callers interleave between the
\* statements of a handler.  A handler makes three calls with no lock or
\* transaction around them: TranscriptionService.get_transcription, the AI
\* service, TranscriptionService.update_*.  A request therefore takes three
\* steps, and any other request may be served between them.  Between its
\* steps a request holds its local variables only: the arguments of the AI
\* call it is about to make, then the value the call returned.  Each store
\* call is one transaction.  current_user is read only when a response is
\* built, so the caller's role is drawn there.  A step that sends no
\* response leaves NoResponse in resp: resp is what the last step sent.
WorkflowOps ==
    {"generate-note", "suggest-icd10", "suggest-cpt", "generate-cms1500", "run-full"}

\* The requests handled at once (worker threads for the `def` handlers,
\* coroutines for the `async def` ones): each is idle or part-way through a
\* request.
Slots == {1, 2}

Idle == [pc |-> "idle"]

\* Mutant: CPT codes can be suggested only after the ICD-10 codes.
step_refusal_cpt_after_icd10(op, t) ==
    IF op \in {"suggest-icd10", "suggest-cpt", "generate-cms1500"} /\ note_missing(t)
    THEN "Medical note must be generated first"
    ELSE IF op = "suggest-cpt" /\ FalsyList(t.icd10_codes)
    THEN "ICD-10 codes must be suggested first"
    ELSE IF op = "generate-cms1500" /\ codes_missing(t)
    THEN "ICD-10 and CPT codes must be suggested first"
    ELSE ""

\* The `if not ...: raise HTTPException(400, ...)` checks of a handler: the
\* detail of the 400 it answers for this record ("" if it goes on).
step_refusal(op, t) ==
    IF op \in {"suggest-icd10", "suggest-cpt", "generate-cms1500"} /\ note_missing(t)
    THEN "Medical note must be generated first"
    ELSE IF op = "generate-cms1500" /\ codes_missing(t)
    THEN "ICD-10 and CPT codes must be suggested first"
    ELSE ""

\* The fields of the loaded record that the handler hands to the AI service.
step_args(op, t) ==
    [text |-> IF op = "generate-cms1500" THEN None ELSE Some(t.text),
     medical_note |-> IF op \in {"generate-note", "run-full"} THEN None
                      ELSE t.medical_note,
     icd10_codes |-> IF op = "generate-cms1500" THEN t.icd10_codes ELSE None,
     cpt_codes |-> IF op = "generate-cms1500" THEN t.cpt_codes ELSE None]

\* Mutant: a new note invalidates the codes and the form.
step_update_invalidating(op, d, id, value) ==
    CASE op = "generate-note" -> TS_update_full_workflow(d, id, value, None, None, None)
      [] op = "suggest-icd10" -> TS_update_icd10_codes(d, id, value)
      [] op = "suggest-cpt" -> TS_update_cpt_codes(d, id, value)
      [] op = "generate-cms1500" -> TS_update_cms1500_form(d, id, value)
      [] op = "run-full" ->
            TS_update_full_workflow(d, id, value.medical_note, value.icd10_codes,
                                    value.cpt_codes, value.cms1500_form_data)

\* Mutant: a note that is already there is not overwritten.
step_update_keep_existing(op, d, id, value) ==
    CASE op = "generate-note" ->
            IF id \in Ids(d) /\ Row(d, id).medical_note # None THEN d
            ELSE TS_update_medical_note(d, id, value)
      [] op = "suggest-icd10" -> TS_update_icd10_codes(d, id, value)
      [] op = "suggest-cpt" -> TS_update_cpt_codes(d, id, value)
      [] op = "generate-cms1500" -> TS_update_cms1500_form(d, id, value)
      [] op = "run-full" ->
            TS_update_full_workflow(d, id, value.medical_note, value.icd10_codes,
                                    value.cpt_codes, value.cms1500_form_data)

\* The TranscriptionService.update_* call of the handler.
step_update(op, d, id, value) ==
    CASE op = "generate-note" -> TS_update_medical_note(d, id, value)
      [] op = "suggest-icd10" -> TS_update_icd10_codes(d, id, value)
      [] op = "suggest-cpt" -> TS_update_cpt_codes(d, id, value)
      [] op = "generate-cms1500" -> TS_update_cms1500_form(d, id, value)
      [] op = "run-full" ->
            TS_update_full_workflow(d, id, value.medical_note, value.icd10_codes,
                                    value.cpt_codes, value.cms1500_form_data)

step_message(op) ==
    CASE op = "generate-note" -> "Medical note generated successfully"
      [] op = "suggest-icd10" -> "ICD-10 codes suggested successfully"
      [] op = "suggest-cpt" -> "CPT codes suggested successfully"
      [] op = "generate-cms1500" -> "CMS-1500 form generated successfully"
      [] op = "run-full" -> "Full workflow completed successfully"

step_failure(op) ==
    CASE op = "generate-note" -> "Failed to update medical note"
      [] op = "suggest-icd10" -> "Failed to update ICD-10 codes"
      [] op = "suggest-cpt" -> "Failed to update CPT codes"
      [] op = "generate-cms1500" -> "Failed to update CMS-1500 form"
      [] op = "run-full" -> "Failed to update workflow"

\* Mutant: run-full has no `if not transcription` check.
load_step_unchecked(s, op, id, role) ==
    LET found == TS_get_transcription(db, id)
    IN /\ inflight[s] = Idle
       /\ UNCHANGED <<db, nextId>>
       /\ IF found = None /\ op = "run-full"
          THEN resp' = ServerError(op, id, role, "none") /\ UNCHANGED inflight
          ELSE IF found = None
          THEN resp' = NotFound(op, id, role) /\ UNCHANGED inflight
          ELSE IF step_refusal(op, found[1]) # ""
          THEN /\ resp' = BadRequest(op, id, role, step_refusal(op, found[1]))
               /\ UNCHANGED inflight
          ELSE /\ inflight' = [inflight EXCEPT ![s] =
                                   [pc |-> "loaded", op |-> op, id |-> id,
                                    args |-> step_args(op, found[1])]]
               /\ resp' = NoResponse

\* First step of a request: TranscriptionService.get_transcription and the
\* `if not ...: raise HTTPException` checks (404, then 400).
load_step(s, op, id, role) ==
    LET found == TS_get_transcription(db, id)
    IN /\ inflight[s] = Idle
       /\ UNCHANGED <<db, nextId>>
       /\ IF found = None
          THEN resp' = NotFound(op, id, role) /\ UNCHANGED inflight
          ELSE IF step_refusal(op, found[1]) # ""
          THEN /\ resp' = BadRequest(op, id, role, step_refusal(op, found[1]))
               /\ UNCHANGED inflight
          ELSE /\ inflight' = [inflight EXCEPT ![s] =
                                   [pc |-> "loaded", op |-> op, id |-> id,
                                    args |-> step_args(op, found[1])]]
               /\ resp' = NoResponse

\* Mutant: a failure of the AI service is reported after an empty value has
\* been stored.
ai_step_saving_on_failure(s, out, role) ==
    /\ inflight[s].pc = "loaded"
    /\ UNCHANGED nextId
    /\ IF out.raised
       THEN /\ resp' = ServerError(inflight[s].op, inflight[s].id, role, "raised")
            /\ inflight' = [inflight EXCEPT ![s] = Idle]
            /\ db' = TS_update_full_workflow(db, inflight[s].id, None, None, None, None)
       ELSE /\ inflight' = [inflight EXCEPT ![s] =
                                [pc |-> "called", op |-> inflight[s].op,
                                 id |-> inflight[s].id, value |-> out.value]]
            /\ resp' = NoResponse
            /\ UNCHANGED db

\* Second step: the call of the AI service.  It raises (no handler catches
\* the exception: 500) or returns a value, which the request keeps.
ai_step(s, out, role) ==
    /\ inflight[s].pc = "loaded"
    /\ UNCHANGED nextId
    /\ IF out.raised
       THEN /\ resp' = ServerError(inflight[s].op, inflight[s].id, role, "raised")
            /\ inflight' = [inflight EXCEPT ![s] = Idle]
            /\ UNCHANGED db
       ELSE /\ inflight' = [inflight EXCEPT ![s] =
                                [pc |-> "called", op |-> inflight[s].op,
                                 id |-> inflight[s].id, value |-> out.value]]
            /\ resp' = NoResponse
            /\ UNCHANGED db

\* run-full reads four keys of the result, `workflow_result["medical_note"]`
\* and its three siblings: a missing one raises KeyError, any other key of
\* the dict is not looked at.
missing_key(op, value) == op = "run-full" /\ ~(FullKeys \subseteq DOMAIN value)

\* Mutant: generate-cms1500 saves, with the form, the note it was made of.
persist_step_whole_row(s, role) ==
    LET op == inflight[s].op
        id == inflight[s].id
        d == IF op = "generate-cms1500"
             THEN TS_update_medical_note(step_update(op, db, id, inflight[s].value),
                                         id, inflight[s].value[1][2])
             ELSE step_update(op, db, id, inflight[s].value)
    IN /\ inflight[s].pc = "called"
       /\ inflight' = [inflight EXCEPT ![s] = Idle]
       /\ UNCHANGED nextId
       /\ IF missing_key(op, inflight[s].value)
          THEN resp' = ServerError(op, id, role, "returned") /\ UNCHANGED db
          ELSE /\ db' = d
               /\ resp' = StepResult(op, id, role, step_message(op), step_failure(op), d)

\* Third step: TranscriptionService.update_*(...), `if not updated: raise
\* HTTPException(500, ...)`, and the response filtered by role.
persist_step(s, role) ==
    LET op == inflight[s].op
        id == inflight[s].id
        d == step_update(op, db, id, inflight[s].value)
    IN /\ inflight[s].pc = "called"
       /\ inflight' = [inflight EXCEPT ![s] = Idle]
       /\ UNCHANGED nextId
       /\ IF missing_key(op, inflight[s].value)
          THEN resp' = ServerError(op, id, role, "returned") /\ UNCHANGED db
          ELSE /\ db' = d
               /\ resp' = StepResult(op, id, role, step_message(op), step_failure(op), d)

\* --------------------------------------------------------- CRUD endpoints
MAX_LIMIT == 100

\* Query parameters of a list request, within and outside their ranges.
ListSkips == {-1, 0, 1}

ListLimits == {0, 1, MAX_LIMIT, MAX_LIMIT + 1}

\* Sizes (bytes) of an audio chunk: empty or not.
ChunkSizes == {0, 1}

\* transcribe_audio_chunk and transcribe_audio are `async def`: each runs on
\* the event loop up to `await audio.read()`, where other requests are
\* served, and from there to its end in one piece.  get_transcriptions is a
\* plain `def` that makes two store calls with nothing held between them.
\* Each of the three is two steps; between them the request holds its local
\* variables in `inflight`, as a workflow request does.  The uploaded file
\* and its size belong to the request from its first step on.

\* POST /transcribe-chunk up to `await audio.read()`: nothing is checked
\* before the read.
transcribe_audio_chunk_begin(s, chunk_size) ==
    /\ inflight[s] = Idle
    /\ inflight' = [inflight EXCEPT ![s] =
                        [pc |-> "reading", op |-> "transcribe-chunk",
                         chunk_size |-> chunk_size]]
    /\ resp' = NoResponse
    /\ UNCHANGED <<db, nextId>>

\* Mutant: a loading model is reported as 503, as POST /transcribe does.
transcribe_audio_chunk_strict(s, role, result) ==
    LET op == "transcribe-chunk"
        chunk_size == inflight[s].chunk_size
        body == IF chunk_size = 0 THEN [text |-> "", status |-> "empty"]
                ELSE IF result.status = "error"
                THEN [text |-> "", status |-> "error", message |-> result.message]
                ELSE [text |-> result.text, status |-> "success"]
    IN /\ inflight[s].pc = "reading"
       /\ inflight[s].op = op
       /\ inflight' = [inflight EXCEPT ![s] = Idle]
       /\ resp' = IF chunk_size # 0 /\ result.status = "loading"
                  THEN Response(op, 0, role, 503, "Model is loading", "none", "loading", <<>>)
                  ELSE Response(op, 0, role, 200, body.status, "none",
                                IF chunk_size = 0 THEN "none" ELSE result.status, <<body>>)
       /\ UNCHANGED <<db, nextId>>

\* POST /transcribe-chunk from the read on: answers 200 whatever the
\* transcriber reports.
transcribe_audio_chunk(s, role, result) ==
    LET op == "transcribe-chunk"
        chunk_size == inflight[s].chunk_size
        body == IF chunk_size = 0 THEN [text |-> "", status |-> "empty"]
                ELSE IF result.status = "error"
                THEN [text |-> "", status |-> "error", message |-> result.message]
                ELSE IF result.status = "loading" THEN [text |-> "", status |-> "loading"]
                ELSE [text |-> result.text, status |-> "success"]
    IN /\ inflight[s].pc = "reading"
       /\ inflight[s].op = op
       /\ inflight' = [inflight EXCEPT ![s] = Idle]
       /\ resp' = Response(op, 0, role, 200, body.status, "none",
                           IF chunk_size = 0 THEN "none" ELSE result.status, <<body>>)
       /\ UNCHANGED <<db, nextId>>

\* The response to an upload: the file sent, and the content type handed to
\* the transcriber (None if it was not called).
UploadReply(role, upload, file_size, status, detail, stt, sent, items) ==
    [Response("transcribe", 0, role, status, detail, "none", stt, items)
        EXCEPT !.file_size = file_size, !.upload = upload, !.content_type = sent]

\* POST /transcribe up to `await audio.read()`: the content type is resolved
\* and the format checked (400).
transcribe_audio_begin(s, role, filename, declared_type, file_size) ==
    LET content_type == detect_content_type(declared_type, filename)
        upload == [declared_type |-> declared_type, filename |-> filename]
    IN /\ inflight[s] = Idle
       /\ UNCHANGED <<db, nextId>>
       /\ IF unsupported_format(content_type)
          THEN /\ resp' = UploadReply(role, upload, file_size, 400,
                                      "Unsupported format", "none", None, <<>>)
               /\ UNCHANGED inflight
          ELSE /\ inflight' = [inflight EXCEPT ![s] =
                                   [pc |-> "reading", op |-> "transcribe",
                                    upload |-> upload, file_size |-> file_size]]
               /\ resp' = NoResponse

\* Mutant: the record is saved before the transcriber's result is looked at.
transcribe_audio_saves_first(cap, s, role, result) ==
    LET upload == inflight[s].upload
        file_size == inflight[s].file_size
        content_type == detect_content_type(upload.declared_type, upload.filename)
        data == [filename |-> upload.filename,
                 file_size_mb |-> round_size_mb(file_size),
                 content_type |-> content_type,
                 text |-> IF result.status = "success" THEN result.text ELSE ""]
        d == TS_create_transcription(db, nextId, data)
        Reply(status, detail, stt, sent, items) ==
            UploadReply(role, upload, file_size, status, detail, stt, sent, items)
    IN /\ inflight[s].pc = "reading"
       /\ inflight[s].op = "transcribe"
       /\ inflight' = [inflight EXCEPT ![s] = Idle]
       /\ IF file_too_large(file_size)
          THEN /\ resp' = Reply(413, "File too large", "none", None, <<>>)
               /\ UNCHANGED <<db, nextId>>
          ELSE /\ nextId <= cap
               /\ db' = d
               /\ nextId' = nextId + 1
               /\ resp' = IF result.status = "error"
                          THEN Reply(500, result.message, "error", content_type, <<>>)
                          ELSE IF result.status = "loading"
                          THEN Reply(503, "Model is loading", "loading", content_type, <<>>)
                          ELSE Reply(200, "", "success", content_type,
                                     <<filter_transcription_for_role(d[Len(d)], role)>>)

\* POST /transcribe from the read on, with the store creating at most `cap`
\* records: size check (413), transcriber call (500, 503), create, response
\* filtered by role.
transcribe_audio_upto(cap, s, role, result) ==
    LET upload == inflight[s].upload
        file_size == inflight[s].file_size
        content_type == detect_content_type(upload.declared_type, upload.filename)
        data == [filename |-> upload.filename,
                 file_size_mb |-> round_size_mb(file_size),
                 content_type |-> content_type,
                 text |-> result.text]
        d == TS_create_transcription(db, nextId, data)
        Reply(status, detail, stt, sent, items) ==
            UploadReply(role, upload, file_size, status, detail, stt, sent, items)
    IN /\ inflight[s].pc = "reading"
       /\ inflight[s].op = "transcribe"
       /\ inflight' = [inflight EXCEPT ![s] = Idle]
       /\ IF file_too_large(file_size)
          THEN /\ resp' = Reply(413, "File too large", "none", None, <<>>)
               /\ UNCHANGED <<db, nextId>>
          ELSE IF result.status = "error"
          THEN /\ resp' = Reply(500, result.message, "error", content_type, <<>>)
               /\ UNCHANGED <<db, nextId>>
          ELSE IF result.status = "loading"
          THEN /\ resp' = Reply(503, "Model is loading", "loading", content_type, <<>>)
               /\ UNCHANGED <<db, nextId>>
          ELSE /\ nextId <= cap
               /\ db' = d
               /\ nextId' = nextId + 1
               /\ resp' = Reply(200, "", "success", content_type,
                                <<filter_transcription_for_role(d[Len(d)], role)>>)

\* POST /transcribe from the read on.
transcribe_audio(s, role, result) == transcribe_audio_upto(MaxRecords, s, role, result)

\* GET / up to its first store call: skip >= 0 and 1 <= limit <= 100, or 422
\* from the query validation; then TranscriptionService.get_transcriptions.
get_transcriptions_begin(s, role, skip, limit) ==
    /\ inflight[s] = Idle
    /\ UNCHANGED <<db, nextId>>
    /\ IF skip < 0 \/ limit < 1 \/ limit > MAX_LIMIT
       THEN /\ resp' = [Response("list", 0, role, 422, "validation error",
                                 "none", "none", <<>>)
                           EXCEPT !.skip = skip, !.limit = limit]
            /\ UNCHANGED inflight
       ELSE /\ inflight' = [inflight EXCEPT ![s] =
                                [pc |-> "listed", op |-> "list",
                                 skip |-> skip, limit |-> limit,
                                 transcriptions |-> TS_get_transcriptions(db, skip, limit)]]
            /\ resp' = NoResponse

\* Mutant: pages are numbered from 0.
get_transcriptions_zero_based(s, role) ==
    LET transcriptions == inflight[s].transcriptions
        filtered_items == [i \in 1..Len(transcriptions) |->
                              filter_transcription_for_role(transcriptions[i], role)]
    IN /\ inflight[s].pc = "listed"
       /\ inflight' = [inflight EXCEPT ![s] = Idle]
       /\ UNCHANGED <<db, nextId>>
       /\ resp' = [Response("list", 0, role, 200, "", "none", "none", filtered_items)
                      EXCEPT !.skip = inflight[s].skip, !.limit = inflight[s].limit,
                             !.total = TS_count_transcriptions(db),
                             !.page = inflight[s].skip \div inflight[s].limit,
                             !.page_size = inflight[s].limit]

\* GET / from its second store call on: TranscriptionService
\* .count_transcriptions, then the items read before, filtered by role.
get_transcriptions(s, role) ==
    LET transcriptions == inflight[s].transcriptions
        filtered_items == [i \in 1..Len(transcriptions) |->
                              filter_transcription_for_role(transcriptions[i], role)]
    IN /\ inflight[s].pc = "listed"
       /\ inflight' = [inflight EXCEPT ![s] = Idle]
       /\ UNCHANGED <<db, nextId>>
       /\ resp' = [Response("list", 0, role, 200, "", "none", "none", filtered_items)
                      EXCEPT !.skip = inflight[s].skip, !.limit = inflight[s].limit,
                             !.total = TS_count_transcriptions(db),
                             !.page = (inflight[s].skip \div inflight[s].limit) + 1,
                             !.page_size = inflight[s].limit]

\* GET /{transcription_id}
get_transcription(id, role) ==
    LET op == "get"
        found == TS_get_transcription(db, id)
    IN /\ UNCHANGED <<db, nextId>>
       /\ IF found = None
          THEN resp' = NotFound(op, id, role)
          ELSE resp' = Response(op, id, role, 200, "", "none", "none",
                                <<filter_transcription_for_role(found[1], role)>>)

\* Mutant: no `if not success` check.
delete_transcription_unchecked(id, role) ==
    /\ UNCHANGED nextId
    /\ db' = TS_delete_transcription(db, id)
    /\ resp' = Response("delete", id, role, 200, "Transcription deleted successfully",
                        "none", "none", <<>>)

\* DELETE /{transcription_id}
delete_transcription(id, role) ==
    LET op == "delete"
        success == id \in Ids(db)
    IN /\ UNCHANGED nextId
       /\ db' = TS_delete_transcription(db, id)
       /\ IF ~success
          THEN resp' = NotFound(op, id, role)
          ELSE resp' = Response(op, id, role, 200, "Transcription deleted successfully",
                                "none", "none", <<>>)

\* ---------------------------------------------------------- specification
\* The outcomes of the AI call of each endpoint.
StepOutcomes(op) ==
    CASE op = "generate-note" -> NoteOutcomes
      [] op = "suggest-icd10" -> Icd10Outcomes
      [] op = "suggest-cpt" -> CptOutcomes
      [] op = "generate-cms1500" -> FormOutcomes
      [] op = "run-full" -> FullOutcomes

Init ==
    /\ db = <<>>
    /\ nextId = 1
    /\ resp = NoResponse
    /\ inflight = [s \in Slots |-> Idle]

\* A new request is taken by the first idle worker.
FreeSlot(s) == inflight[s] = Idle /\ \A r \in Slots : r < s => inflight[r] # Idle

\* Worker s holds an upload that waits for its file.
Uploading(s) == inflight[s].pc = "reading" /\ inflight[s].op = "transcribe"

\* The store has an id left for one more upload, beside those in flight.
CanCreate(cap) == nextId + Cardinality({s \in Slots : Uploading(s)}) <= cap

ReceiveChunk ==
    \E s \in Slots, n \in ChunkSizes :
        FreeSlot(s) /\ transcribe_audio_chunk_begin(s, n)

TranscribeChunk ==
    \E s \in Slots, role \in Roles, result \in TranscriberResults :
        transcribe_audio_chunk(s, role, result)

Receive ==
    \E s \in Slots, role \in Roles, filename \in FileNames,
       declared_type \in ContentTypes, file_size \in FileSizes :
        FreeSlot(s) /\ transcribe_audio_begin(s, role, filename, declared_type, file_size)

Transcribe ==
    \E s \in Slots, role \in Roles, result \in TranscriberResults :
        transcribe_audio(s, role, result)

ListQuery ==
    \E s \in Slots, role \in Roles, skip \in ListSkips, limit \in ListLimits :
        FreeSlot(s) /\ get_transcriptions_begin(s, role, skip, limit)

List == \E s \in Slots, role \in Roles : get_transcriptions(s, role)

Get == \E id \in TranscriptionIds, role \in Roles :
    get_transcription(id, role) /\ UNCHANGED inflight

Delete == \E id \in TranscriptionIds, role \in Roles :
    delete_transcription(id, role) /\ UNCHANGED inflight

\* An upload that is accepted and transcribed, as in
\* `curl -F "file=@visit.wav"`: it creates the record of the workflow.
Upload ==
    \E s \in Slots, role \in Roles :
        /\ FreeSlot(s)
        /\ CanCreate(MaxRecords)
        /\ transcribe_audio_begin(s, role, Some(<<"VISIT", ".WAV">>), Some(OCTET_STREAM),
                                  MAX_FILE_SIZE_MB * BytesPerMB)

Transcribed ==
    \E s \in Slots, role \in Roles :
        transcribe_audio(s, role,
                         [status |-> "success", text |-> "Patient reports headache"])

\* `limit: int = Query(10, ge=1, le=100)`.
DEFAULT_LIMIT == 10

\* GET /transcriptions with its default page.
ListAll ==
    \E s \in Slots, role \in Roles :
        FreeSlot(s) /\ get_transcriptions_begin(s, role, 0, DEFAULT_LIMIT)

Load ==
    \E s \in Slots, op \in WorkflowOps, id \in TranscriptionIds, role \in Roles :
        FreeSlot(s) /\ load_step(s, op, id, role)

CallAI ==
    \E s \in Slots, role \in Roles :
        /\ inflight[s].pc = "loaded"
        /\ \E out \in StepOutcomes(inflight[s].op) : ai_step(s, out, role)

Persist == \E s \in Slots, role \in Roles : persist_step(s, role)

\* The workflow of a record, from its upload to its deletion, with the
\* requests of two callers interleaved.
Next ==
    \/ Upload
    \/ Transcribed
    \/ ListAll
    \/ List
    \/ Get
    \/ Delete
    \/ Load
    \/ CallAI
    \/ Persist

Spec == Init /\ [][Next]_vars

\* ------------------------------------------------ uploads, reads, deletes
\* The upload, chunk, list, get and delete endpoints with every kind of
\* upload and query, two requests at a time, and no workflow request.
CrudNext ==
    \/ ReceiveChunk
    \/ TranscribeChunk
    \/ Receive
    \/ Transcribe
    \/ ListQuery
    \/ List
    \/ Get
    \/ Delete

SpecCrud == Init /\ [][CrudNext]_vars

\* ------------------------------------------------------ uploads in detail
\* The upload endpoint alone, one upload at a time, each received on the
\* empty store (the handler reads nothing from the store), over the declared types and file
\* names that the content-type resolution tells apart: no type, an empty
\* type, the generic type (bare and with a parameter), supported audio types
\* (bare, with a parameter, with blanks around the parameter's semicolon),
\* unsupported types; no file name, every extension of the table in lower
\* and upper case, an unlisted extension, a listed extension that is not
\* the last one, no extension.
UploadTypes ==
    {None, Some(<<>>), Some(OCTET_STREAM),
     Some(<<"application/octet-stream", ";", "charset=binary">>),
     Some(<<"audio/mpeg">>),
     Some(<<"audio/webm", ";", "codecs=opus">>),
     Some(<<"audio/wav", " ", ";", " ", "rate=16000">>),
     Some(<<"audio/aac">>),
     Some(<<"text/plain">>)}

UploadNames ==
    {None, Some(<<"visit">>), Some(<<"visit", ".txt">>), Some(<<"visit", ".mp3", ".txt">>)}
        \cup {Some(<<"visit", ext>>) : ext \in Extensions}
        \cup {Some(<<"VISIT", ext>>) : ext \in {".MP3", ".WAV", ".M4A", ".OGG", ".FLAC", ".WEBM"}}

ReceiveUpload ==
    /\ db = <<>>
    /\ \A r \in Slots : inflight[r] = Idle
    /\ \E s \in Slots, role \in Roles, filename \in UploadNames,
          declared_type \in UploadTypes, file_size \in FileSizes :
            FreeSlot(s) /\ transcribe_audio_begin(s, role, filename, declared_type, file_size)

UploadNext == ReceiveUpload \/ Transcribe

SpecUpload == Init /\ [][UploadNext]_vars

\* -------------------------------------------------------- lists in detail
\* Uploads, deletions and list requests over a store of up to MaxListRecords
\* records, with offsets up to past the end of the store and page sizes of
\* one, two and the maximum.
MaxListRecords == 3

PageSkips == 0..(MaxListRecords + 1)

PageLimits == {1, 2, MAX_LIMIT}

ListRecordIds == 1..MaxListRecords

UploadForList ==
    \E s \in Slots, file_size \in FileSizes :
        /\ FreeSlot(s)
        /\ CanCreate(MaxListRecords)
        /\ transcribe_audio_begin(s, ADMIN, Some(<<"VISIT", ".WAV">>),
                                  Some(OCTET_STREAM), file_size)

TranscribeForList ==
    \E s \in Slots :
        transcribe_audio_upto(MaxListRecords, s, ADMIN,
                              [status |-> "success", text |-> "Patient reports headache"])

DeleteForList == \E id \in ListRecordIds :
    delete_transcription(id, ADMIN) /\ UNCHANGED inflight

ListPage ==
    \E s \in Slots, role \in Roles, skip \in PageSkips, limit \in PageLimits :
        FreeSlot(s) /\ get_transcriptions_begin(s, role, skip, limit)

ListNext == UploadForList \/ TranscribeForList \/ DeleteForList \/ ListPage \/ List

SpecList == Init /\ [][ListNext]_vars

\* -------------------------------------------------- two requests, one record
\* The single-step workflow endpoints on record 1, called by an
\* administrator, with an AI service that returns a value that tells the
\* two workers apart.
StepOps == {"generate-note", "suggest-icd10", "suggest-cpt", "generate-cms1500"}

StepIds == {1}

\* AIMedicalService: the value returned to the request of worker s.  The two
\* workers get different notes; a form is made of the note and the codes it
\* was asked for.
AI_result(s, op, args) ==
    CASE op = "generate-note" -> Some(IF s = 1 THEN "note 1" ELSE "note 2")
      [] op = "suggest-icd10" -> Some(<<"R51">>)
      [] op = "suggest-cpt" -> Some(<<"99213">>)
      [] op = "generate-cms1500" ->
            Some(<<"cms1500", args.medical_note, args.icd10_codes, args.cpt_codes>>)

UploadForSteps ==
    \E s \in Slots :
        /\ FreeSlot(s)
        /\ CanCreate(MaxRecords)
        /\ transcribe_audio_begin(s, ADMIN, Some(<<"VISIT", ".WAV">>), Some(OCTET_STREAM),
                                  MAX_FILE_SIZE_MB * BytesPerMB)

TranscribeForSteps ==
    \E s \in Slots :
        transcribe_audio(s, ADMIN,
                         [status |-> "success", text |-> "Patient reports headache"])

LoadStep ==
    \E s \in Slots, op \in StepOps, id \in StepIds : load_step(s, op, id, ADMIN)

AiStep ==
    \E s \in Slots :
        /\ inflight[s].pc = "loaded"
        /\ ai_step(s, Returned(AI_result(s, inflight[s].op, inflight[s].args)), ADMIN)

PersistStep == \E s \in Slots : persist_step(s, ADMIN)

DeleteDuringSteps ==
    \E id \in StepIds : delete_transcription(id, ADMIN) /\ UNCHANGED inflight

StepNext ==
    \/ UploadForSteps
    \/ TranscribeForSteps
    \/ LoadStep
    \/ AiStep
    \/ PersistStep
    \/ DeleteDuringSteps

SpecSteps == Init /\ [][StepNext]_vars

\* ================================================================= claims
NoteAbsent(t) == t.medical_note = None \/ t.medical_note = Some("")

ListAbsent(x) == x = None \/ x = Some(<<>>)

\* The record a request addresses has a note / a code list.
HasNote(d, id) == id \in Ids(d) /\ ~NoteAbsent(Row(d, id))

HasIcd10(d, id) == id \in Ids(d) /\ ~ListAbsent(Row(d, id).icd10_codes)

HasCpt(d, id) == id \in Ids(d) /\ ~ListAbsent(Row(d, id).cpt_codes)

\* The steps of a workflow request, told by what they do to the worker.
\* The request was answered at its first step (404 or 400): no worker moved.
Refused == inflight' = inflight /\ resp'.op \in WorkflowOps

\* The request passed the checks of its first step; worker s holds it.
Started(s) == inflight[s] = Idle /\ inflight'[s].pc = "loaded"

\* The AI call of the request of worker s returned.
Called(s) == inflight[s].pc = "loaded" /\ inflight'[s].pc = "called"

\* The AI call of the request of worker s raised.
AiFailed(s) == inflight[s].pc = "loaded" /\ inflight'[s] = Idle

\* The request of worker s took its last step: the update of the store.
Persisted(s) == inflight[s].pc = "called" /\ inflight'[s] = Idle

CodeOps == {"suggest-icd10", "suggest-cpt"}

\* C1: a suggest-icd10 or suggest-cpt request that finds its record with a
\* medical_note that is None or empty goes no further than its first step:
\* it is answered 400 "Medical note must be generated first", the AI service
\* is not called (no worker keeps the request) and the table is left as it
\* was; only a record that has a note is handed to the AI service.
C1_NoteRequired ==
    [][/\ (Refused /\ resp'.op \in CodeOps /\ resp'.id \in Ids(db))
            => /\ NoteAbsent(Row(db, resp'.id))
               /\ resp'.status = 400
               /\ resp'.detail = "Medical note must be generated first"
               /\ resp'.ai = "none"
               /\ db' = db
       /\ \A s \in Slots :
            (Started(s) /\ inflight'[s].op \in CodeOps)
                => HasNote(db, inflight'[s].id) /\ db' = db]_vars

\* C1 witness: suggest-cpt was refused on a record whose note is the empty
\* string.
C1_Witness ==
    /\ resp.op = "suggest-cpt"
    /\ resp.status = 400
    /\ resp.id \in Ids(db)
    /\ Row(db, resp.id).medical_note = Some("")

\* The record has all that generate-cms1500 asks for.
FormReady(t) ==
    ~NoteAbsent(t) /\ ~ListAbsent(t.icd10_codes) /\ ~ListAbsent(t.cpt_codes)

\* C2: a generate-cms1500 request goes on to the AI service, and so can
\* answer 200, only if it finds the note present and both code lists
\* non-empty on its record; in every other combination it is answered 400 at
\* its first step, the AI service is not called and the table is left as it
\* was.
C2_FormRequiresNoteAndCodes ==
    [][/\ (Refused /\ resp'.op = "generate-cms1500" /\ resp'.id \in Ids(db))
            => /\ ~FormReady(Row(db, resp'.id))
               /\ resp'.status = 400
               /\ resp'.ai = "none"
               /\ db' = db
       /\ \A s \in Slots :
            /\ (Started(s) /\ inflight'[s].op = "generate-cms1500")
                 => /\ inflight'[s].id \in Ids(db)
                    /\ FormReady(Row(db, inflight'[s].id))
                    /\ db' = db
            /\ (resp'.op = "generate-cms1500" /\ resp'.status = 200)
                 => \E r \in Slots : Persisted(r) /\ inflight[r].op = "generate-cms1500"]_vars

\* C2 witness: generate-cms1500 was refused on a record that has a note and
\* ICD-10 codes but an empty CPT list.
C2_Witness ==
    /\ resp.op = "generate-cms1500"
    /\ resp.status = 400
    /\ resp.id \in Ids(db)
    /\ ~NoteAbsent(Row(db, resp.id))
    /\ ~ListAbsent(Row(db, resp.id).icd10_codes)
    /\ Row(db, resp.id).cpt_codes = Some(<<>>)

\* C3: in every reachable state every record respects the partial order of
\* the workflow outputs: a form implies both code lists non-empty, and a
\* non-empty code list implies a note.  (Stated as claimed; the code breaks
\* it when the AI service returns an empty value.)
C3_PartialOrder ==
    \A i \in 1..Len(db) :
        /\ ~ListAbsent(db[i].cms1500_form)
              => ~ListAbsent(db[i].icd10_codes) /\ ~ListAbsent(db[i].cpt_codes)
        /\ (~ListAbsent(db[i].icd10_codes) \/ ~ListAbsent(db[i].cpt_codes))
              => ~NoteAbsent(db[i])

BillingKeys == {"icd10_codes", "cpt_codes", "cms1500_form"}

\* Endpoints whose 200 body is one transcription, and the list endpoint.
SingleRecordOps == WorkflowOps \cup {"transcribe", "get"}

\* The list request of worker s was answered.
ListAnswered(s) == inflight[s].pc = "listed" /\ inflight'[s] = Idle

\* C4: whatever the endpoint and the record, a body returned to a doctor has
\* none of icd10_codes, cpt_codes, cms1500_form in any of its transcriptions,
\* and a body returned to an administrator has all three in each of them,
\* as the record holds them (for a list, as the records read held them).
C4_RoleFiltering ==
    [][(resp'.status = 200 /\ resp'.op \in SingleRecordOps \cup {"list"})
       => /\ resp'.op \in SingleRecordOps => Len(resp'.items) = 1
          /\ \A i \in 1..Len(resp'.items) :
                IF resp'.role = DOCTOR
                THEN DOMAIN resp'.items[i] \cap BillingKeys = {}
                ELSE BillingKeys \subseteq DOMAIN resp'.items[i]
          /\ (resp'.role = ADMIN /\ resp'.op \in SingleRecordOps)
                => \A k \in BillingKeys :
                      resp'.items[1][k] = Row(db', resp'.items[1].id)[k]
          /\ resp'.role = ADMIN
                => \A s \in Slots :
                      ListAnswered(s)
                        => /\ Len(resp'.items) = Len(inflight[s].transcriptions)
                           /\ \A i \in 1..Len(resp'.items), k \in BillingKeys :
                                 resp'.items[i][k] = inflight[s].transcriptions[i][k]]_vars

\* C4 witness: a doctor's own generate-cms1500 request stored a form, and the
\* body that request got back has no billing key.
C4_Witness ==
    /\ resp.op = "generate-cms1500"
    /\ resp.status = 200
    /\ resp.role = DOCTOR
    /\ Row(db, resp.id).cms1500_form = Some(<<"cms1500">>)
    /\ Len(resp.items) = 1
    /\ "medical_note" \in DOMAIN resp.items[1]

\* C5: run-full is all-or-nothing: it either fails and leaves the table as it
\* was, or answers 200 having written four present (non-null, non-empty)
\* outputs.  (Stated as claimed; the code writes a partial result.)
C5_AllOrNothing ==
    [][(resp'.op = "run-full" /\ resp'.id \in Ids(db))
       => IF resp'.status = 200
          THEN LET t == Row(db', resp'.id)
               IN /\ ~NoteAbsent(t)
                  /\ ~ListAbsent(t.icd10_codes)
                  /\ ~ListAbsent(t.cpt_codes)
                  /\ ~ListAbsent(t.cms1500_form)
          ELSE db' = db]_vars

\* The workflow output a single step writes.
OwnField(op) ==
    CASE op = "generate-note" -> "medical_note"
      [] op = "suggest-icd10" -> "icd10_codes"
      [] op = "suggest-cpt" -> "cpt_codes"
      [] op = "generate-cms1500" -> "cms1500_form"

SingleStepOps == {"generate-note", "suggest-icd10", "suggest-cpt", "generate-cms1500"}

ChangedFields(t, u) == {f \in DOMAIN t : t[f] # u[f]}

\* The precondition of a single step on a row.
StepReady(op, t) ==
    CASE op = "generate-note" -> TRUE
      [] op \in {"suggest-icd10", "suggest-cpt"} -> ~NoteAbsent(t)
      [] op = "generate-cms1500" -> FormReady(t)

\* C6: a single step whose precondition holds on its record, whatever
\* outputs the record already has, is not refused (generate-note has no
\* precondition, so its re-run goes through); when it updates the record it
\* answers 200 and changes no field but its own output and no other record;
\* and no other step of a workflow request writes to the table.
C6_AdditiveWrite ==
    [][/\ (Refused /\ resp'.op \in SingleStepOps /\ resp'.id \in Ids(db))
            => ~StepReady(resp'.op, Row(db, resp'.id)) /\ db' = db
       /\ \A s \in Slots :
            /\ (Persisted(s) /\ inflight[s].op \in SingleStepOps
                    /\ inflight[s].id \in Ids(db))
                 => /\ resp'.op = inflight[s].op
                    /\ resp'.status = 200
                    /\ Len(db') = Len(db)
                    /\ \A i \in 1..Len(db) :
                          ChangedFields(db[i], db'[i])
                             \subseteq (IF db[i].id = inflight[s].id
                                        THEN {OwnField(inflight[s].op)} ELSE {})
            /\ (Started(s) \/ Called(s) \/ AiFailed(s)) => db' = db]_vars

\* C6 witness: generate-note was re-run with success on a record that already
\* had codes and a form, which are still there.
C6_Witness ==
    /\ resp.op = "generate-note"
    /\ resp.status = 200
    /\ Row(db, resp.id).medical_note = Some("note 1")
    /\ Row(db, resp.id).icd10_codes = Some(<<"R51">>)
    /\ Row(db, resp.id).cpt_codes = Some(<<"99213">>)
    /\ Row(db, resp.id).cms1500_form = Some(<<"cms1500">>)

\* C7: the workflow_status of a record never moves back to an earlier stage.
\* (Stated as claimed; the status moves back when a re-run stores an empty
\* output.)
C7_StatusMonotonic ==
    [][\A id \in Ids(db) \cap Ids(db') :
          StatusRank(workflow_status(Row(db', id)))
             >= StatusRank(workflow_status(Row(db, id)))]_vars

\* The ids the store has given out and holds no more.
Deleted(d, n) == {id \in 1..(n - 1) : id \notin Ids(d)}

\* C8: a delete of an existing record answers 200 and removes it; a delete of
\* an absent id answers 404 and changes nothing; a deleted id stays absent;
\* and every request made on a deleted id (delete, get, any workflow
\* endpoint) answers 404, no workflow request being taken up for it.
C8_DeleteOnce ==
    [][/\ resp'.op = "delete"
          => IF resp'.id \in Ids(db)
             THEN resp'.status = 200 /\ Ids(db') = Ids(db) \ {resp'.id}
             ELSE resp'.status = 404 /\ db' = db
       /\ Deleted(db, nextId) \subseteq Deleted(db', nextId')
       /\ (inflight' = inflight /\ resp'.op \in WorkflowOps \cup {"get", "delete"}
              /\ resp'.id \in Deleted(db, nextId))
            => resp'.status = 404
       /\ \A s \in Slots :
            Started(s) => inflight'[s].id \notin Deleted(db, nextId)]_vars

\* C8 witness: a second delete of a deleted id answered 404.
C8_Witness ==
    /\ resp.op = "delete"
    /\ resp.status = 404
    /\ resp.id \in Deleted(db, nextId)

\* C9: a workflow request on an id that has no record is answered 404 at its
\* first step, whatever the endpoint: the AI service is not called (no
\* worker keeps the request) and no record is created or changed.
C9_WorkflowNotFound ==
    [][/\ (Refused /\ resp'.id \notin Ids(db))
            => /\ resp'.status = 404
               /\ resp'.detail = "Transcription not found"
               /\ resp'.ai = "none"
               /\ db' = db
               /\ nextId' = nextId
       /\ \A s \in Slots :
            Started(s) => inflight'[s].id \in Ids(db)]_vars

\* C9 witness: generate-cms1500 on an absent id answered 404 while the store
\* holds another record.
C9_Witness ==
    /\ resp.op = "generate-cms1500"
    /\ resp.status = 404
    /\ resp.id \notin Ids(db)
    /\ Len(db) > 0

MaxBytes == MAX_FILE_SIZE_MB * BytesPerMB

\* C10 as claimed: an upload above the maximum is answered 413 without the
\* transcriber being called and without a record being created.
C10_OversizeIs413 ==
    [][(resp'.op = "transcribe" /\ resp'.file_size > MaxBytes)
       => /\ resp'.status = 413
          /\ resp'.stt = "none"
          /\ db' = db]_vars

\* C10 as amended: an upload above the maximum is refused without the
\* transcriber being called and without a record being created, with 413, or
\* with 400 "Unsupported format" when its content type is not supported; the
\* transcriber is called only for files at or below the maximum.
C10_OversizeRejected ==
    [][resp'.op = "transcribe"
       => /\ resp'.file_size > MaxBytes
             => /\ resp'.status \in {400, 413}
                /\ resp'.status = 400 => resp'.detail = "Unsupported format"
                /\ resp'.stt = "none"
                /\ db' = db
                /\ nextId' = nextId
          /\ resp'.stt # "none" => resp'.file_size <= MaxBytes]_vars

\* C10 witness: an upload one byte above the maximum was answered 413.
C10_Witness ==
    /\ resp.op = "transcribe"
    /\ resp.file_size = MaxBytes + 1
    /\ resp.status = 413
    /\ resp.stt = "none"

\* C11: a transcribe request creates a record only when the transcriber
\* reports success: "loading" is answered 503 and "error" 500 with the store
\* as it was; a success is answered 200 and appends exactly one record, which
\* has the transcriber's text and none of the four workflow outputs (Raw).
C11_CreatedOnSuccessOnly ==
    [][resp'.op = "transcribe"
       => /\ resp'.stt = "loading" => resp'.status = 503 /\ db' = db /\ nextId' = nextId
          /\ resp'.stt = "error" => resp'.status = 500 /\ db' = db /\ nextId' = nextId
          /\ resp'.stt = "none" => db' = db /\ nextId' = nextId
          /\ resp'.stt = "success"
                => /\ resp'.status = 200
                   /\ Len(db') = Len(db) + 1
                   /\ SubSeq(db', 1, Len(db)) = db
                   /\ db'[Len(db')].id \notin Ids(db)
                   /\ db'[Len(db')].text = "Patient reports headache"
                   /\ db'[Len(db')].medical_note = None
                   /\ db'[Len(db')].icd10_codes = None
                   /\ db'[Len(db')].cpt_codes = None
                   /\ db'[Len(db')].cms1500_form = None
                   /\ workflow_status(db'[Len(db')]) = RAW]_vars

\* C11 witness: a successful transcribe request left one Raw record.
C11_Witness ==
    /\ resp.op = "transcribe"
    /\ resp.status = 200
    /\ Len(db) = 1
    /\ db[1].text = "Patient reports headache"
    /\ workflow_status(db[1]) = RAW

\* C17: when the AI service raises during a workflow request (generate-note,
\* suggest-icd10, suggest-cpt, generate-cms1500, run-full) the request is
\* answered with a server error (500) and ends there: the update of the
\* store is not reached, and the store is exactly as before the call.
C17_AiFailureLeavesRecord ==
    [][/\ \A s \in Slots :
            AiFailed(s)
              => /\ resp'.op = inflight[s].op
                 /\ resp'.id = inflight[s].id
                 /\ resp'.ai = "raised"
                 /\ resp'.status = 500
                 /\ resp'.items = <<>>
                 /\ db' = db
                 /\ nextId' = nextId
       /\ resp'.ai = "raised" => \E s \in Slots : AiFailed(s)]_vars

\* C17 witness: the AI service raised on a record that already had a note,
\* and the record still has it.
C17_Witness ==
    /\ resp.ai = "raised"
    /\ resp.status = 500
    /\ resp.id \in Ids(db)
    /\ ~NoteAbsent(Row(db, resp.id))

\* C18: suggest-icd10 and suggest-cpt are independent: on a record with a
\* note neither is refused, whether or not the other list is there; each
\* answers 200 when it updates the record and leaves the other list as it
\* was; generate-cms1500 is not refused once the note and both lists are
\* there, and goes on to the AI service only then.
C18_CodeStepsIndependent ==
    [][/\ (Refused /\ resp'.op \in CodeOps) => ~HasNote(db, resp'.id)
       /\ (Refused /\ resp'.op = "generate-cms1500")
            => ~(HasNote(db, resp'.id) /\ HasIcd10(db, resp'.id) /\ HasCpt(db, resp'.id))
       /\ \A s \in Slots :
            /\ (Persisted(s) /\ inflight[s].op \in CodeOps /\ inflight[s].id \in Ids(db))
                 => /\ resp'.status = 200
                    /\ inflight[s].op = "suggest-icd10"
                         => Row(db', inflight[s].id).cpt_codes
                               = Row(db, inflight[s].id).cpt_codes
                    /\ inflight[s].op = "suggest-cpt"
                         => Row(db', inflight[s].id).icd10_codes
                               = Row(db, inflight[s].id).icd10_codes
            /\ (Started(s) /\ inflight'[s].op = "generate-cms1500")
                 => HasIcd10(db, inflight'[s].id) /\ HasCpt(db, inflight'[s].id)]_vars

\* C18 witness: suggest-cpt succeeded on a record that has a note and no
\* ICD-10 codes yet (the order note, CPT, ICD-10).
C18_Witness ==
    /\ resp.op = "suggest-cpt"
    /\ resp.status = 200
    /\ HasNote(db, resp.id)
    /\ HasCpt(db, resp.id)
    /\ Row(db, resp.id).icd10_codes = None
    /\ Row(db, resp.id).cms1500_form = None

\* C19: a chunk transcription always answers 200 with a body that has a
\* text; the text is empty when the chunk is empty or the transcriber
\* reports an error or a loading model; the store is never changed.
C19_ChunkNeverFails ==
    [][resp'.op = "transcribe-chunk"
       => /\ resp'.status = 200
          /\ Len(resp'.items) = 1
          /\ "text" \in DOMAIN resp'.items[1]
          /\ resp'.stt \in {"none", "error", "loading"} <=> resp'.items[1].text = ""
          /\ resp'.stt = "success" => resp'.items[1].text = "Patient reports headache"
          /\ db' = db
          /\ nextId' = nextId]_vars

\* C19 witness: a chunk sent while the model was loading, with a record in
\* the store, was answered 200 with an empty text.
C19_Witness ==
    /\ resp.op = "transcribe-chunk"
    /\ resp.stt = "loading"
    /\ resp.status = 200
    /\ resp.items[1].text = ""
    /\ db # <<>>

\* The documented extension table (spec 4.1).
DocumentedMime ==
    [e \in Extensions |->
        CASE e = ".mp3" -> <<"audio/mpeg">>
          [] e = ".wav" -> <<"audio/wav">>
          [] e = ".m4a" -> <<"audio/m4a">>
          [] e = ".ogg" -> <<"audio/ogg">>
          [] e = ".flac" -> <<"audio/flac">>
          [] e = ".webm" -> <<"audio/webm">>]

\* The extension of the table a file name ends with, in either case (<<>> if
\* none).
ListedExtension(filename) ==
    IF filename = None THEN <<>>
    ELSE LET last == filename[1][Len(filename[1])]
         IN IF last \in Extensions THEN <<last>>
            ELSE IF last = ".MP3" THEN <<".mp3">>
            ELSE IF last = ".WAV" THEN <<".wav">>
            ELSE IF last = ".M4A" THEN <<".m4a">>
            ELSE IF last = ".OGG" THEN <<".ogg">>
            ELSE IF last = ".FLAC" THEN <<".flac">>
            ELSE IF last = ".WEBM" THEN <<".webm">>
            ELSE <<>>

\* The declared types of UploadTypes that name a supported audio format, the
\* generic ones, and the empty ones.
SupportedDeclared ==
    {Some(<<"audio/mpeg">>), Some(<<"audio/webm", ";", "codecs=opus">>),
     Some(<<"audio/wav", " ", ";", " ", "rate=16000">>)}

GenericDeclared ==
    {Some(<<"application/octet-stream">>),
     Some(<<"application/octet-stream", ";", "charset=binary">>)}

EmptyDeclared == {None, Some(<<>>)}

\* An upload declared exactly application/octet-stream whose file name ends
\* with a listed extension is not refused as unsupported, and when the
\* transcriber is called it is handed the documented type of the extension.
OctetStreamResolved ==
    (/\ resp'.op = "transcribe"
     /\ resp'.upload.declared_type = Some(<<"application/octet-stream">>)
     /\ ListedExtension(resp'.upload.filename) # <<>>)
        => /\ resp'.status # 400
           /\ resp'.stt # "none"
                => resp'.content_type
                     = Some(DocumentedMime[ListedExtension(resp'.upload.filename)[1]])

\* A refusal as unsupported comes before the transcriber and the store.
RefusedBeforeTranscription ==
    (resp'.op = "transcribe" /\ resp'.status = 400)
        => resp'.stt = "none" /\ db' = db /\ nextId' = nextId

\* C12 as claimed: an octet-stream upload with a listed extension resolves to
\* the documented type, and every other upload whose declared type is not a
\* supported audio type (and that has no empty or generic type with a listed
\* extension) is refused with 400 before the transcriber is called.
C12_UnsupportedAlwaysRefused ==
    [][/\ OctetStreamResolved
       /\ RefusedBeforeTranscription
       /\ (/\ resp'.op = "transcribe"
           /\ resp'.upload.declared_type \notin SupportedDeclared
           /\ ~(/\ resp'.upload.declared_type \in GenericDeclared \cup EmptyDeclared
                /\ ListedExtension(resp'.upload.filename) # <<>>))
            => resp'.status = 400]_vars

\* C12 (amended): an octet-stream upload with a listed extension resolves to
\* the documented type; an upload is refused with 400, before the
\* transcriber is called, exactly when its declared type is neither a
\* supported audio type nor the generic type: a generic upload with an
\* unlisted extension is not refused.
C12_ResolutionAndRefusal ==
    [][/\ OctetStreamResolved
       /\ RefusedBeforeTranscription
       /\ resp'.op = "transcribe"
            => (resp'.status = 400
                  <=> resp'.upload.declared_type \notin SupportedDeclared \cup GenericDeclared)]_vars

\* C12 witness: an octet-stream upload named visit.m4a reached the
\* transcriber as audio/m4a.
C12_Witness ==
    /\ resp.op = "transcribe"
    /\ resp.upload = [declared_type |-> Some(<<"application/octet-stream">>),
                      filename |-> Some(<<"visit", ".m4a">>)]
    /\ resp.status = 200
    /\ resp.content_type = Some(<<"audio/m4a">>)
    /\ db # <<>>
    /\ db[Len(db)].content_type = Some(<<"audio/m4a">>)

\* C13 as claimed: an upload with no declared type (absent or empty) and a
\* listed extension is resolved by the extension table and not refused as
\* unsupported.
C13_EmptyTypeInferred ==
    [][(/\ resp'.op = "transcribe"
        /\ resp'.upload.declared_type \in EmptyDeclared
        /\ ListedExtension(resp'.upload.filename) # <<>>)
          => /\ resp'.status # 400
             /\ resp'.stt # "none"
                  => resp'.content_type
                       = Some(DocumentedMime[ListedExtension(resp'.upload.filename)[1]])]_vars

\* C13 (amended): an upload with no declared type (absent or empty) is
\* refused with 400 whatever its file name, before the transcriber is called
\* and with the store unchanged: only application/octet-stream is resolved
\* by extension.
C13_EmptyTypeRefused ==
    [][(resp'.op = "transcribe" /\ resp'.upload.declared_type \in EmptyDeclared)
          => /\ resp'.status = 400
             /\ resp'.stt = "none"
             /\ resp'.content_type = None
             /\ db' = db
             /\ nextId' = nextId]_vars

\* C13 witness: an upload named visit.mp3 with an empty declared type was
\* refused.
C13_Witness ==
    /\ resp.op = "transcribe"
    /\ resp.upload = [declared_type |-> Some(<<>>), filename |-> Some(<<"visit", ".mp3">>)]
    /\ resp.status = 400
    /\ db = <<>>

Max(a, b) == IF a > b THEN a ELSE b

\* C14 as claimed: a list request with skip >= 0 and limit in 1..100 on a
\* store of N records is answered with total = N, page_size = limit,
\* page = (skip div limit) + 1 and exactly min(limit, max(0, N - skip)) items:
\* the records at positions skip+1, skip+2, ... of the store's creation
\* order, so that consecutive pages neither repeat nor skip a record.
C14_Pagination ==
    resp.op = "list"
        => /\ resp.status = 200 <=> (resp.skip >= 0 /\ resp.limit \in 1..100)
           /\ resp.status = 200
                => /\ resp.total = Len(db)
                   /\ resp.page_size = resp.limit
                   /\ resp.page = (resp.skip \div resp.limit) + 1
                   /\ Len(resp.items) = Min(resp.limit, Max(0, Len(db) - resp.skip))
                   /\ \A i \in 1..Len(resp.items) :
                          resp.items[i].id = db[resp.skip + i].id
                   /\ \A i, j \in 1..Len(resp.items) :
                          i < j => resp.items[i].id < resp.items[j].id

\* The list request of worker s read its items.
ListRead(s) == inflight[s] = Idle /\ inflight'[s].pc = "listed"

\* C14 (amended): a list request with skip >= 0 and limit in 1..100 reads
\* the store twice.  Its items are the records at positions skip+1, skip+2,
\* ... of the creation order of the store as it stood at the first read,
\* min(limit, max(0, N - skip)) of them for the N records of that moment, in
\* increasing id; its total is the number of records at the second read;
\* page_size = limit and page = (skip div limit) + 1.  A record created or
\* deleted between the two reads makes total and items disagree.
C14_PageAndTotalReadApart ==
    [][/\ (resp'.op = "list" /\ inflight' = inflight)
            => resp'.status = 422 /\ ~(resp'.skip >= 0 /\ resp'.limit \in 1..100)
       /\ \A s \in Slots :
            /\ ListRead(s)
                 => LET skip == inflight'[s].skip
                        limit == inflight'[s].limit
                        items == inflight'[s].transcriptions
                    IN /\ skip >= 0
                       /\ limit \in 1..100
                       /\ Len(items) = Min(limit, Max(0, Len(db) - skip))
                       /\ \A i \in 1..Len(items) : items[i] = db[skip + i]
                       /\ db' = db
            /\ ListAnswered(s)
                 => /\ resp'.op = "list"
                    /\ resp'.status = 200
                    /\ resp'.total = Len(db)
                    /\ resp'.page_size = inflight[s].limit
                    /\ resp'.page = (inflight[s].skip \div inflight[s].limit) + 1
                    /\ Len(resp'.items) = Len(inflight[s].transcriptions)
                    /\ \A i \in 1..Len(resp'.items) :
                          resp'.items[i].id = inflight[s].transcriptions[i].id
                    /\ \A i, j \in 1..Len(resp'.items) :
                          i < j => resp'.items[i].id < resp'.items[j].id
                    /\ db' = db]_vars

\* C14 witness: the only record was deleted between the two reads of a list
\* request, which was answered with a total of 0 and one item.
C14_Witness ==
    /\ resp.op = "list"
    /\ resp.status = 200
    /\ resp.skip = 0
    /\ nextId = 2
    /\ db = <<>>
    /\ resp.total = 0
    /\ Len(resp.items) = 1
    /\ resp.items[1].id = 1

\* C15: two generate-note requests on the same record can be in flight at
\* once; in every interleaving of their steps neither blocks the other (each
\* can always take its next step), each that persists on the existing record
\* is answered 200, and after each persist the record's note is the note of
\* the request that persisted (last write wins); a note once there is never
\* absent again while the record exists.
C15_LastWriteWins ==
    [][/\ \A s \in Slots :
            /\ (Persisted(s) /\ inflight[s].op = "generate-note"
                    /\ inflight[s].id \in Ids(db))
                 => /\ resp'.op = "generate-note"
                    /\ resp'.status = 200
                    /\ Row(db', inflight[s].id).medical_note = inflight[s].value
                    /\ ~NoteAbsent(Row(db', inflight[s].id))
            /\ inflight[s].pc = "loaded" => ENABLED ai_step(s, Returned(AI_result(s, inflight[s].op,
                                                   inflight[s].args)), ADMIN)
            /\ inflight[s].pc = "called" => ENABLED persist_step(s, ADMIN)
            /\ inflight[s] = Idle => ENABLED load_step(s, "generate-note", 1, ADMIN)
       /\ \A id \in StepIds :
            (HasNote(db, id) /\ id \in Ids(db')) => HasNote(db', id)]_vars

\* C15 witness: the request of slot 1 persisted "note 1" and was answered
\* 200 while the request of slot 2, called with "note 2", had yet to persist.
C15_Witness ==
    /\ resp.op = "generate-note"
    /\ resp.status = 200
    /\ 1 \in Ids(db)
    /\ Row(db, 1).medical_note = Some("note 1")
    /\ inflight[1] = Idle
    /\ inflight[2] = [pc |-> "called", op |-> "generate-note", id |-> 1,
                      value |-> Some("note 2")]

\* C16: when the record is deleted after a step loaded it and before the
\* step persists, the persist leaves the store as it is and the step is
\* answered 500 with its "Failed to update" detail; an id that was deleted
\* stays absent.
C16_DeletedStaysDeleted ==
    [][/\ \A s \in Slots :
            (Persisted(s) /\ inflight[s].id \notin Ids(db))
                => /\ resp'.op = inflight[s].op
                   /\ resp'.status = 500
                   /\ resp'.detail = step_failure(inflight[s].op)
                   /\ resp'.items = <<>>
                   /\ db' = db
       /\ \A id \in StepIds :
            (id < nextId /\ id \notin Ids(db)) => id \notin Ids(db')]_vars

\* C16 witness: a generate-note request was answered 500 because record 1,
\* created earlier, was gone.
C16_Witness ==
    /\ resp.op = "generate-note"
    /\ resp.status = 500
    /\ resp.detail = "Failed to update medical note"
    /\ nextId > 1
    /\ 1 \notin Ids(db)

\* The form the AI service makes of the note and codes a record holds.
FormOf(t) == Some(<<"cms1500", t.medical_note, t.icd10_codes, t.cpt_codes>>)

\* C20 as claimed: when generate-cms1500 persists its form, the form is the
\* one made of the note and the codes the record holds at that moment.
C20_FormMatchesRecord ==
    [][\A s \in Slots :
          (Persisted(s) /\ inflight[s].op = "generate-cms1500"
               /\ inflight[s].id \in Ids(db))
            => Row(db', inflight[s].id).cms1500_form = FormOf(Row(db', inflight[s].id))]_vars

\* C20 (amended): the form generate-cms1500 persists is the one made of the
\* note and the codes the record held when the request loaded it (all three
\* present then); the persist writes the form only, so a note or code list
\* written by a concurrent request between the load and the persist stays,
\* and the stored form may be made of an older note.
C20_FormOfLoadedValues ==
    [][\A s \in Slots :
          /\ (inflight[s] = Idle /\ inflight'[s] # Idle
                  /\ inflight'[s].op = "generate-cms1500")
               => /\ HasNote(db, inflight'[s].id)
                  /\ HasIcd10(db, inflight'[s].id)
                  /\ HasCpt(db, inflight'[s].id)
                  /\ FormOf(inflight'[s].args) = FormOf(Row(db, inflight'[s].id))
          /\ (inflight[s].pc = "loaded" /\ inflight'[s].pc = "called"
                  /\ inflight[s].op = "generate-cms1500")
               => inflight'[s].value = FormOf(inflight[s].args)
          /\ (Persisted(s) /\ inflight[s].op = "generate-cms1500"
                  /\ inflight[s].id \in Ids(db))
               => /\ resp'.status = 200
                  /\ Row(db', inflight[s].id)
                       = [Row(db, inflight[s].id) EXCEPT !.cms1500_form = inflight[s].value]]_vars

\* C20 witness: generate-cms1500 was answered 200 and the record holds a
\* form made of a note other than the one the record has.
C20_Witness ==
    /\ resp.op = "generate-cms1500"
    /\ resp.status = 200
    /\ 1 \in Ids(db)
    /\ Row(db, 1).cms1500_form # None
    /\ Row(db, 1).cms1500_form # FormOf(Row(db, 1))
    /\ Row(db, 1).cms1500_form[1][2] # Row(db, 1).medical_note

====
